---- MODULE Spec2Model ----
(***************************************************************************)
(* WFS.py of vworld_api: download_layer harvests one layer of the VWorld   *)
(* WFS feed.  fetch_all_features pages through one query (STARTINDEX 0,    *)
(* PAGE_SIZE, 2*PAGE_SIZE, ...) and drops repeated feature ids;            *)
(* download_layer either runs one such walk, or, for a layer configured    *)
(* with a BBOX filter and bbox_split > 1, splits the box with split_bbox   *)
(* and merges one walk per cell.                                           *)
(*                                                                         *)
(* Encoding.  A feature is [id, pos]; pos is the point of its geometry.    *)
(* Python's None is the empty tuple; an id string s is the tuple <<s>>,    *)
(* and the string "_idx_k" that line 295 formats is <<"_idx_", k>>.  The   *)
(* identifiers the feed sends here are ordinary non-empty strings, none of *)
(* the form "_idx_k".  Coordinates are multiples of 6, for which the       *)
(* divisions by 2 and by 3 of split_bbox are exact in Python's floats too. *)
(* A response body that parses as JSON holds either no "features" key or   *)
(* a list of feature objects.                                              *)
(*                                                                         *)
(* Geocoding.  address_to_coordinate (API1.py, the same text in API2.py,   *)
(* and a shorter one in geocoder.py) asks the VWorld address service for   *)
(* the point of an address, in a loop of at most max_retries requests;     *)
(* geocode_apt (geocoder.py) calls it for the road address, the parcel     *)
(* address and the parcel address rewritten by parse_sigungu_address.      *)
(* An address is the sequence of its words, the empty string the empty     *)
(* sequence; Korean words and labels are written in Latin letters.  A      *)
(* response that arrives has a JSON body, and the x and y of a point are   *)
(* numerals.                                                               *)
(*                                                                         *)
(* CSV runs.  add_coordinates_to_apt_csv (API1.py) and                     *)
(* add_coordinates_to_academy_csv (API2.py) geocode the rows of a file one *)
(* after the other and write one output file at the end or when they are   *)
(* stopped; process_csv (geocoder.py) does the same with worker threads.   *)
(* A result row is its index and its longitude: None, or <<number>>.  The  *)
(* names of the columns for longitude, latitude and note are written       *)
(* gyeongdo, wido, bigo, and an output file is the numbers and the tag of  *)
(* its name together with its rows.                                        *)
(***************************************************************************)
EXTENDS Integers, Sequences, FiniteSets, TLC

\* Page size of a request (1000 in WFS.py:31), scaled down.
PAGE_SIZE == 2
\* Longest feature list the feed holds.
MaxFeatures == 3
\* Coordinates of the boxes split_bbox is applied to: 6 * (-MaxCoord..MaxCoord).
MaxCoord == 2
\* Longest feature list of the feed that one long walk pages through.
MaxWalkFeatures == 5
\* Most requests of one walk against a feed that never ends.
MaxPages == 4
\* Most rows of an input CSV file.
MaxRows == 3
MaxWorkers == 2
\* Largest max_retries given to address_to_coordinate.
MaxRetries == 3
\* Largest split count given to split_bbox.
MaxSplits == 25

VARIABLES
    store,        \* the feed: the features it holds, in the order it serves them
    ceiling,      \* the feed rejects a STARTINDEX at or beyond this offset
    bbox_filter,  \* the layer's BBOX filter, or None
    bbox_split,   \* the layer's bbox_split
    pc,           \* "idle", "fetch" (a request is about to be sent), "done", "split",
                  \* "cancelled"
    split_boxes,  \* download_layer: the cells of the split
    cur,          \* index of the cell being walked; 0 for the walk without split
    h_all,        \* download_layer: all_features
    h_seen,       \* download_layer: seen_ids
    w_all,        \* fetch_all_features: all_features
    w_seen,       \* fetch_all_features: seen_ids
    start_index,  \* fetch_all_features: start_index
    page,         \* fetch_all_features: page
    ret,          \* what download_layer returned
    lastReq,      \* the request sent last and its answer
    queried,      \* the cells a request was sent for
    anyFail,      \* some request of this run failed otherwise than by the feed's ceiling
    run,          \* number of the download_layer call
    firstResult,  \* all_features of the first call, once a second one started
    geo,          \* the call of address_to_coordinate: arguments, loop, requests
    apt,          \* the call of geocode_apt: arguments, attempts made, result
    csv,          \* the call of add_coordinates_to_apt_csv / _academy_csv
    pool          \* the call of process_csv: rows, worker threads, results

wfsVars == <<store, ceiling, bbox_filter, bbox_split, pc, split_boxes, cur, h_all,
             h_seen, w_all, w_seen, start_index, page, ret, lastReq, queried,
             anyFail, run, firstResult>>

csvVars == <<csv, pool>>

geoVars == <<geo, apt, csvVars>>

vars == <<wfsVars, geoVars>>

None == <<>>

BBOX_GYEONGGI == <<0, 0, 6, 6>>

Points == {<<1, 1>>, <<3, 3>>, <<5, 5>>}

FeedIds == {None, <<"a">>, <<"b">>}

Features == [id : FeedIds, pos : Points]

\* The id strings are interchangeable: they are named in the order in which
\* the feed's list first shows them ("a" before "b").
Canonical(s) ==
    \A k \in 1..Len(s) : s[k].id = <<"b">> => \E j \in 1..(k - 1) : s[j].id = <<"a">>

Stores == {s \in UNION {[1..n -> Features] : n \in 0..MaxFeatures} : Canonical(s)}

FailureKinds == {"net", "http", "json", "nokey"}

NoRequest == [cell |-> 0, offset |-> 0, kind |-> "none", features |-> <<>>]

----------------------------------------------------------------------------
\* split_bbox

\* Grid with the cells a column after the other.
Grid_ColumnMajor(xs, ys) ==
    LET nx == Len(xs) - 1
        ny == Len(ys) - 1
    IN  [k \in 1..(nx * ny) |->
            LET i == (k - 1) \div ny
                j == (k - 1) % ny
            IN  <<xs[i + 1], ys[j + 1], xs[i + 2], ys[j + 2]>>]

\* The cells of the loops `for j in range(len(ys) - 1): for i in
\* range(len(xs) - 1)`, in the order in which they are appended.
Grid(xs, ys) ==
    LET nx == Len(xs) - 1
        ny == Len(ys) - 1
    IN  [k \in 1..(nx * ny) |->
            LET j == (k - 1) \div nx
                i == (k - 1) % nx
            IN  <<xs[i + 1], ys[j + 1], xs[i + 2], ys[j + 2]>>]

\* split_bbox with dx where the 3x3 grid needs dy.
split_bbox_DxForDy(bbox, splits) ==
    LET minx == bbox[1]
        miny == bbox[2]
        maxx == bbox[3]
        maxy == bbox[4]
        dx == (maxx - minx) \div 3
    IN  IF splits <= 1 THEN <<bbox>>
        ELSE IF splits = 4
             THEN Grid(<<minx, (minx + maxx) \div 2, maxx>>,
                       <<miny, (miny + maxy) \div 2, maxy>>)
        ELSE IF splits >= 9
             THEN Grid(<<minx, minx + dx, minx + 2 * dx, maxx>>,
                       <<miny, miny + dx, miny + 2 * dx, maxy>>)
        ELSE <<bbox>>

\* split_bbox with the 3x3 grid for 9 only.
split_bbox_NineOnly(bbox, splits) ==
    LET minx == bbox[1]
        miny == bbox[2]
        maxx == bbox[3]
        maxy == bbox[4]
        dx == (maxx - minx) \div 3
        dy == (maxy - miny) \div 3
    IN  IF splits <= 1 THEN <<bbox>>
        ELSE IF splits = 4
             THEN Grid(<<minx, (minx + maxx) \div 2, maxx>>,
                       <<miny, (miny + maxy) \div 2, maxy>>)
        ELSE IF splits = 9
             THEN Grid(<<minx, minx + dx, minx + 2 * dx, maxx>>,
                       <<miny, miny + dy, miny + 2 * dy, maxy>>)
        ELSE <<bbox>>

\* split_bbox with an empty list where it returns the box itself.
split_bbox_EmptyForOne(bbox, splits) ==
    LET minx == bbox[1]
        miny == bbox[2]
        maxx == bbox[3]
        maxy == bbox[4]
        dx == (maxx - minx) \div 3
        dy == (maxy - miny) \div 3
    IN  IF splits <= 1 THEN <<>>
        ELSE IF splits = 4
             THEN Grid(<<minx, (minx + maxx) \div 2, maxx>>,
                       <<miny, (miny + maxy) \div 2, maxy>>)
        ELSE IF splits >= 9
             THEN Grid(<<minx, minx + dx, minx + 2 * dx, maxx>>,
                       <<miny, miny + dy, miny + 2 * dy, maxy>>)
        ELSE <<bbox>>

split_bbox(bbox, splits) ==
    LET minx == bbox[1]
        miny == bbox[2]
        maxx == bbox[3]
        maxy == bbox[4]
        dx == (maxx - minx) \div 3
        dy == (maxy - miny) \div 3
    IN  IF splits <= 1 THEN <<bbox>>
        ELSE IF splits = 4
             THEN Grid(<<minx, (minx + maxx) \div 2, maxx>>,
                       <<miny, (miny + maxy) \div 2, maxy>>)
        ELSE IF splits >= 9
             THEN Grid(<<minx, minx + dx, minx + 2 * dx, maxx>>,
                       <<miny, miny + dy, miny + 2 * dy, maxy>>)
        ELSE <<bbox>>

----------------------------------------------------------------------------
\* The feed, as fetch_wfs sees it

InBox(pos, box) ==
    box = None \/ (/\ box[1] <= pos[1] /\ pos[1] <= box[3]
                   /\ box[2] <= pos[2] /\ pos[2] <= box[4])

Matching(box) == SelectSeq(store, LAMBDA f : InBox(f.pos, box))

Min(a, b) == IF a <= b THEN a ELSE b

\* The answer to COUNT = PAGE_SIZE, STARTINDEX = offset, FILTER = box.
FeedResponse(box, offset) ==
    IF offset >= ceiling
    THEN [kind |-> "http", features |-> <<>>]
    ELSE [kind |-> "ok",
          features |-> SubSeq(Matching(box), offset + 1,
                              Min(offset + PAGE_SIZE, Len(Matching(box))))]

NoData == [isNone |-> TRUE, hasFeatures |-> FALSE, features |-> <<>>]

fetch_wfs(resp) ==
    CASE resp.kind = "ok" ->
            [isNone |-> FALSE, hasFeatures |-> TRUE, features |-> resp.features]
      [] resp.kind = "nokey" ->
            [isNone |-> FALSE, hasFeatures |-> FALSE, features |-> <<>>]
      [] OTHER -> NoData

----------------------------------------------------------------------------
\* fetch_all_features

SynthId(n) == <<"_idx_", n>>

\* AcceptOne without the test of seen_ids.
AcceptOne_NoSeenCheck(acc, f) ==
    LET fid == IF f.id = None THEN SynthId(Len(acc.all)) ELSE f.id
    IN  [all |-> Append(acc.all, f), seen |-> acc.seen \cup {fid}]

\* AcceptOne with a repeated id replacing the feature accepted before.
AcceptOne_KeepLast(acc, f) ==
    LET fid == IF f.id = None THEN SynthId(Len(acc.all)) ELSE f.id
    IN  IF fid \notin acc.seen
        THEN [all |-> Append(acc.all, f), seen |-> acc.seen \cup {fid}]
        ELSE [all |-> Append(SelectSeq(acc.all, LAMBDA g : g.id # f.id), f),
              seen |-> acc.seen]

AcceptOne(acc, f) ==
    LET fid == IF f.id = None THEN SynthId(Len(acc.all)) ELSE f.id
    IN  IF fid \notin acc.seen
        THEN [all |-> Append(acc.all, f), seen |-> acc.seen \cup {fid}]
        ELSE acc

RECURSIVE AcceptPage(_, _)
AcceptPage(acc, features) ==
    IF features = <<>> THEN acc
    ELSE AcceptPage(AcceptOne(acc, Head(features)), Tail(features))

\* The walk stops before it reads the page: no data, or no "features" in it.
NoPage(data) == data.isNone \/ ~data.hasFeatures

\* WalkEnds without the break on a page shorter than PAGE_SIZE.
WalkEnds_NoPartialBreak(data) ==
    \/ NoPage(data)
    \/ Len(data.features) = 0

\* WalkEnds with the loop going on, instead of breaking, when there is no data.
WalkEnds_ContinueOnNoData(data) ==
    /\ ~NoPage(data)
    /\ Len(data.features) < PAGE_SIZE

\* WalkEnds with the loop also left when the next offset is at the ceiling.
WalkEnds_AtCeiling(data) ==
    \/ NoPage(data)
    \/ Len(data.features) = 0
    \/ Len(data.features) < PAGE_SIZE
    \/ start_index + PAGE_SIZE >= ceiling

\* The loop of fetch_all_features is left after this answer.
WalkEnds(data) ==
    \/ NoPage(data)
    \/ Len(data.features) = 0
    \/ Len(data.features) < PAGE_SIZE

\* WalkAccepted with an empty list returned when there is no data.
WalkAccepted_DropOnNoData(data) ==
    IF NoPage(data)
    THEN [all |-> <<>>, seen |-> {}]
    ELSE IF Len(data.features) = 0
    THEN [all |-> w_all, seen |-> w_seen]
    ELSE AcceptPage([all |-> w_all, seen |-> w_seen], data.features)

\* all_features and seen_ids after the answer.
WalkAccepted(data) ==
    IF NoPage(data) \/ Len(data.features) = 0
    THEN [all |-> w_all, seen |-> w_seen]
    ELSE AcceptPage([all |-> w_all, seen |-> w_seen], data.features)

fresh_walk_seen == {}

\* start_index advanced by one record instead of one page.
NextStartIndex_ByOne == start_index + 1

\* start_index += PAGE_SIZE
NextStartIndex == start_index + PAGE_SIZE

----------------------------------------------------------------------------
\* download_layer

Truthy(fid) == fid # None /\ fid # <<"">>

MergeOne(acc, f) ==
    IF Truthy(f.id) /\ f.id \notin acc.seen
    THEN [all |-> Append(acc.all, f), seen |-> acc.seen \cup {f.id}]
    ELSE acc

RECURSIVE MergeAll(_, _)
MergeAll(acc, features) ==
    IF features = <<>> THEN acc
    ELSE MergeAll(MergeOne(acc, Head(features)), Tail(features))

\* Splitting with the whole region walked whatever the configuration.
Splitting_Never == FALSE

\* Splitting with >= for >.
Splitting_OffByOne == bbox_filter # None /\ bbox_split >= 1

\* if bbox_filter and bbox_split > 1
Splitting == bbox_filter # None /\ bbox_split > 1

\* seen_ids kept from the call before instead of a new set.
stale_seen_ids == h_seen

fresh_seen_ids == {}

CurBox == IF cur = 0 THEN bbox_filter ELSE split_boxes[cur]

\* MoreCells with the loop left when a walk ended without data.
MoreCells_AbortOnFailure(data) == cur # 0 /\ cur < Len(split_boxes) /\ ~NoPage(data)

\* The loop over split_boxes goes on to the next cell after a walk returned.
MoreCells(data) == cur # 0 /\ cur < Len(split_boxes)

\* Result with True returned for an empty list too.
Result_AlwaysTrue(all) == "True"

Result(all) == IF all = <<>> THEN "False" ELSE "True"

\* NextCell with the same cell walked again.
NextCell_Same == cur

\* for i, box in enumerate(split_boxes, 1): the cell after the current one.
NextCell == cur + 1

\* The features written to the layer's parquet file: all_features when
\* download_layer got to its end with a non-empty list, nothing otherwise.
Saved == IF ret = "True" THEN h_all ELSE <<>>

Begin ==
    /\ pc = "idle"
    /\ h_all' = <<>>
    /\ h_seen' = fresh_seen_ids
    /\ split_boxes' = IF Splitting THEN split_bbox(bbox_filter, bbox_split) ELSE <<>>
    /\ cur' = IF Splitting THEN 1 ELSE 0
    /\ w_all' = <<>>
    /\ w_seen' = fresh_walk_seen
    /\ start_index' = 0
    /\ page' = 1
    /\ pc' = "fetch"
    /\ UNCHANGED <<store, ceiling, bbox_filter, bbox_split, ret, lastReq,
                   queried, anyFail, run, firstResult, geoVars>>

\* One request of the walk and everything up to the next request.
Fetch(resp, injected) ==
    LET data == fetch_wfs(resp)
        acc == WalkAccepted(data)
        merged == IF cur = 0 THEN [all |-> acc.all, seen |-> h_seen]
                  ELSE MergeAll([all |-> h_all, seen |-> h_seen], acc.all)
    IN  /\ lastReq' = [cell |-> cur, offset |-> start_index,
                       kind |-> resp.kind, features |-> resp.features]
        /\ queried' = queried \cup {cur}
        /\ anyFail' = (anyFail \/ injected)
        /\ IF ~WalkEnds(data)
           THEN /\ w_all' = acc.all
                /\ w_seen' = acc.seen
                /\ start_index' = NextStartIndex
                /\ page' = page + 1
                /\ UNCHANGED <<pc, cur, h_all, h_seen, ret>>
           ELSE /\ h_all' = merged.all
                /\ h_seen' = merged.seen
                /\ w_all' = <<>>
                /\ w_seen' = fresh_walk_seen
                /\ start_index' = 0
                /\ page' = 1
                /\ IF MoreCells(data)
                   THEN /\ cur' = NextCell
                        /\ UNCHANGED <<pc, ret>>
                   ELSE /\ pc' = "done"
                        /\ ret' = Result(merged.all)
                        /\ UNCHANGED cur
        /\ UNCHANGED <<store, ceiling, bbox_filter, bbox_split, split_boxes,
                       run, firstResult, geoVars>>

\* The feed answers the request.
FetchPage ==
    /\ pc = "fetch"
    /\ Fetch(FeedResponse(CurBox, start_index), FALSE)

\* The request fails: timeout or network error ("net"), HTTP error status
\* ("http"), an unparseable body ("json"), or JSON without "features" ("nokey").
FetchFails ==
    /\ pc = "fetch"
    /\ \E kind \in FailureKinds : Fetch([kind |-> kind, features |-> <<>>], TRUE)

\* A feed without end answers the request: a full page, whatever the offset.
FetchEndless ==
    /\ pc = "fetch"
    /\ page <= MaxPages
    /\ \E features \in [1..PAGE_SIZE -> [id : {None, <<"a">>}, pos : {<<3, 3>>}]] :
           Fetch([kind |-> "ok", features |-> features], FALSE)

\* download_layer is called again for the same layer.
Rerun ==
    /\ pc = "done"
    /\ run = 1
    /\ run' = 2
    /\ firstResult' = h_all
    /\ pc' = "idle"
    /\ ret' = "pending"
    /\ lastReq' = NoRequest
    /\ queried' = {}
    /\ anyFail' = FALSE
    /\ UNCHANGED <<store, ceiling, bbox_filter, bbox_split, split_boxes, cur,
                   h_all, h_seen, w_all, w_seen, start_index, page, geoVars>>

\* split_bbox applied on its own.
ApplySplit ==
    /\ pc = "idle"
    /\ split_boxes' = split_bbox(bbox_filter, bbox_split)
    /\ pc' = "split"
    /\ UNCHANGED <<store, ceiling, bbox_filter, bbox_split, cur, h_all, h_seen,
                   w_all, w_seen, start_index, page, ret, lastReq, queried,
                   anyFail, run, firstResult, geoVars>>

\* Interrupted with a handler that returns what was collected so far.
Interrupted_SavesPartial == [pc |-> "cancelled", ret |-> Result(h_all)]

\* WFS.py catches Exception only: a KeyboardInterrupt leaves fetch_wfs,
\* fetch_all_features and download_layer, which returns and saves nothing.
Interrupted == [pc |-> "cancelled", ret |-> "KeyboardInterrupt"]

\* The caller interrupts the harvest while a request is due or in flight.
\* h_all and w_all stay as they were when the interrupt arrived.
Cancel ==
    /\ pc = "fetch"
    /\ pc' = Interrupted.pc
    /\ ret' = Interrupted.ret
    /\ UNCHANGED <<store, ceiling, bbox_filter, bbox_split, split_boxes, cur,
                   h_all, h_seen, w_all, w_seen, start_index, page, lastReq,
                   queried, anyFail, run, firstResult, geoVars>>

----------------------------------------------------------------------------
\* address_to_coordinate

\* max_retries of geocoder.py's address_to_coordinate when the caller gives none.
DEFAULT_MAX_RETRIES == 2

\* A string of blanks only.
Blank == <<" ">>

\* str.strip() of an address.
Strip(address) == IF address = Blank THEN <<>> ELSE address

\* str.upper() of an address type.
Upper(t) == CASE t = "road" -> "ROAD" [] t = "parcel" -> "PARCEL" [] OTHER -> t

\* What becomes of one requests.get: no answer in time, another
\* RequestException (no connection, or an error status at raise_for_status),
\* or a body with status OK and a point, status OK and an empty point, status
\* OK and no "result", or another status.
Outcomes == {"timeout", "network", "found", "empty_point", "no_result", "not_found"}

\* The point of a response with one.
POINT == [x |-> "127", y |-> "37"]

\* float() of the numerals of POINT.
float(str) == CASE str = "127" -> 127 [] str = "37" -> 37

GeoIdle ==
    [impl |-> "none", address |-> <<>>, addr_type |-> "ROAD", max_retries |-> 0,
     attempt |-> 0, outcomes |-> <<>>, slept |-> <<>>, pc |-> "idle",
     result |-> None]

\* The call up to its first request: API1.py returns None for an address type
\* other than ROAD and PARCEL, geocoder.py for an empty or blank address; with
\* max_retries <= 0 the loop has no iteration and None is returned.
GeoStart(impl, address, addr_type, n) ==
    LET g == [impl |-> impl, address |-> address, addr_type |-> addr_type,
              max_retries |-> n, attempt |-> 0, outcomes |-> <<>>,
              slept |-> <<>>, pc |-> "request", result |-> None]
        refused == IF impl = "API1"
                   THEN Upper(addr_type) \notin {"ROAD", "PARCEL"}
                   ELSE Strip(address) = <<>>
    IN  IF refused \/ n <= 0 THEN [g EXCEPT !.pc = "returned"] ELSE g

\* MoreAttempts with <= for <.
MoreAttempts_Inclusive(g) == g.attempt <= g.max_retries - 1

\* attempt < max_retries - 1: range(max_retries) has a value after attempt.
MoreAttempts(g) == g.attempt < g.max_retries - 1

ReturnNone(g) == [g EXCEPT !.pc = "returned", !.result = None]

\* The loop goes to its next iteration, or is over and None is returned.
NextIteration(g) ==
    IF MoreAttempts(g) THEN [g EXCEPT !.attempt = @ + 1] ELSE ReturnNone(g)

\* AfterFailure with the sleep made after the last attempt too.
AfterFailure_SleepsAlways(g, wait_time) ==
    IF MoreAttempts(g)
    THEN [g EXCEPT !.slept = Append(@, wait_time), !.attempt = @ + 1]
    ELSE [g EXCEPT !.slept = Append(@, wait_time), !.pc = "returned", !.result = None]

\* An except clause: sleep and go on if an attempt is left, else None.
AfterFailure(g, wait_time) ==
    IF MoreAttempts(g)
    THEN [g EXCEPT !.slept = Append(@, wait_time), !.attempt = @ + 1]
    ELSE ReturnNone(g)

\* One iteration of the loop, from the request to the next request or return.
Respond(g, outcome) ==
    LET g1 == [g EXCEPT !.outcomes = Append(@, outcome)]
    IN  CASE outcome = "found" ->
                [g1 EXCEPT !.pc = "returned",
                           !.result = <<float(POINT.x), float(POINT.y)>>]
          [] outcome \in {"timeout", "network"} ->
                AfterFailure(g1, IF g.impl = "API1" THEN (g.attempt + 1) * 2 ELSE 1)
          [] outcome = "not_found" -> ReturnNone(g1)
          [] outcome = "empty_point" ->
                IF g.impl = "API1" THEN NextIteration(g1) ELSE ReturnNone(g1)
          [] outcome = "no_result" ->
                IF g.impl = "API1" THEN NextIteration(g1) ELSE AfterFailure(g1, 1)

AddrTypes == {"ROAD", "PARCEL", "parcel", "JIBUN"}

\* 경기도 수원시 영통구 매영로 1
ROAD_SAMPLE == <<"Gyeonggi-do", "Suwon-si", "Yeongtong-gu", "Maeyeong-ro", "1">>

GeoAddresses == {<<>>, Blank, ROAD_SAMPLE}

\* address_to_coordinate is called.
GeoCall ==
    /\ geo.pc = "idle"
    /\ \E impl \in {"API1", "geocoder"}, address \in GeoAddresses,
          addr_type \in AddrTypes, n \in 0..MaxRetries :
           geo' = GeoStart(impl, address, addr_type, n)
    /\ UNCHANGED <<apt, csvVars, wfsVars>>

\* The request of the current attempt is sent and comes to its end.
GeoRequest ==
    /\ geo.pc = "request"
    /\ \E outcome \in Outcomes : geo' = Respond(geo, outcome)
    /\ UNCHANGED <<apt, csvVars, wfsVars>>

----------------------------------------------------------------------------
\* geocode_apt

\* SIGUNGU_MAP, two of its pairs: the word of a city and a district written
\* together (수원영통구, 성남분당구) and the two words that replace it.
SIGUNGU_MAP ==
    ("SuwonYeongtong-gu" :> <<"Suwon-si", "Yeongtong-gu">>) @@
    ("SeongnamBundang-gu" :> <<"Seongnam-si", "Bundang-gu">>)

\* The first place where 경기도 is followed by a city and district written
\* together; 0 if there is none.
PatternAt(address) ==
    LET hits == {k \in 2..Len(address) :
                    address[k - 1] = "Gyeonggi-do" /\ address[k] \in DOMAIN SIGUNGU_MAP}
    IN  IF hits = {} THEN 0 ELSE CHOOSE k \in hits : \A j \in hits : k <= j

parse_sigungu_address(address) ==
    IF address = <<>> \/ address[1] # "Gyeonggi-do" THEN address
    ELSE IF PatternAt(address) = 0 THEN address
    ELSE LET k == PatternAt(address)
         IN  SubSeq(address, 1, k - 1) \o SIGUNGU_MAP[address[k]]
                 \o SubSeq(address, k + 1, Len(address))

\* The attempts of geocode_apt in their order, named by the rule each returns:
\* 도로명, 지번, 지번(시군구분리).
Rules == <<"road", "parcel", "parcel_sigungu">>

\* The rule returned when no attempt succeeded: 실패.
FAILED == "failed"

\* Applicable with the third attempt made for every parcel address.
Applicable_NoParseTest(a, k) ==
    CASE k = 1 -> a.road # <<>>
      [] k = 2 -> a.parcel # <<>>
      [] k = 3 -> a.parcel # <<>>

\* Attempt k is made when the attempts before it failed.
Applicable(a, k) ==
    CASE k = 1 -> a.road # <<>>
      [] k = 2 -> a.parcel # <<>>
      [] k = 3 -> a.parcel # <<>> /\ parse_sigungu_address(a.parcel) # a.parcel

AddressOf(a, k) ==
    CASE k = 1 -> a.road
      [] k = 2 -> a.parcel
      [] k = 3 -> parse_sigungu_address(a.parcel)

TypeOf(k) == IF k = 1 THEN "ROAD" ELSE "PARCEL"

AptIdle == [road |-> <<>>, parcel |-> <<>>, stage |-> 0, calls |-> <<>>,
            pc |-> "idle", result |-> None]

\* geocode_apt after attempt k (0: from its start) up to its next call of
\* address_to_coordinate, or to its return with the rule 실패.
AptAdvance(a, k) ==
    LET later == {j \in (k + 1)..Len(Rules) : Applicable(a, j)}
    IN  IF later = {}
        THEN [apt |-> [a EXCEPT !.pc = "returned", !.result = <<None, None, FAILED>>],
              geo |-> GeoIdle]
        ELSE LET j == CHOOSE i \in later : \A m \in later : i <= m
             IN  [apt |-> [a EXCEPT !.pc = "calling", !.stage = j],
                  geo |-> GeoStart("geocoder", AddressOf(a, j), TypeOf(j),
                                   DEFAULT_MAX_RETRIES)]

\* 경기도 수원영통구 매탄동, 경기도 수원시 영통구 매탄동, 서울특별시 강남구 역삼동
ParcelAddresses ==
    {<<>>,
     <<"Gyeonggi-do", "SuwonYeongtong-gu", "Maetan-dong">>,
     <<"Gyeonggi-do", "Suwon-si", "Yeongtong-gu", "Maetan-dong">>,
     <<"Seoul", "Gangnam-gu", "Yeoksam-dong">>}

\* geocode_apt is called.
AptBegin ==
    /\ apt.pc = "idle"
    /\ geo.pc = "idle"
    /\ \E road \in GeoAddresses, parcel \in ParcelAddresses :
           LET next == AptAdvance([AptIdle EXCEPT !.road = road, !.parcel = parcel], 0)
           IN  apt' = next.apt /\ geo' = next.geo
    /\ UNCHANGED <<csvVars, wfsVars>>

\* address_to_coordinate returned to geocode_apt.
AptStep ==
    /\ apt.pc = "calling"
    /\ geo.pc = "returned"
    /\ LET a == [apt EXCEPT !.calls = Append(@, [rule |-> Rules[apt.stage],
                                                 address |-> geo.address,
                                                 addr_type |-> geo.addr_type,
                                                 requests |-> Len(geo.outcomes),
                                                 result |-> geo.result])]
       IN  IF geo.result # None
           THEN /\ apt' = [a EXCEPT !.pc = "returned",
                                    !.result = <<geo.result[1], geo.result[2],
                                                 Rules[apt.stage]>>]
                /\ geo' = GeoIdle
           ELSE /\ apt' = AptAdvance(a, apt.stage).apt
                /\ geo' = AptAdvance(a, apt.stage).geo
    /\ UNCHANGED <<csvVars, wfsVars>>

----------------------------------------------------------------------------
\* add_coordinates_to_apt_csv (API1.py, geocoder_api.py),
\* add_coordinates_to_academy_csv (API2.py)

Impls == {"API1", "API2", "geocoder_api"}

\* The longitude of a result row: None, or a number (written as a tuple).
Longitudes == {None, <<127>>}

CsvIdle ==
    [impl |-> "none", total |-> 0, results |-> <<>>, files |-> <<>>,
     pc |-> "idle", cause |-> "none", path |-> "none", returned |-> <<>>]

\* The columns of pd.DataFrame(results): those of the result rows, none for
\* an empty list.
Columns(results) ==
    IF results = <<>> THEN {} ELSE {"id", "name", "address", "gyeongdo", "wido", "bigo"}

\* The column the statistics after the final save read: result_df["x"] in
\* API1.py and geocoder_api.py, result_df["경도"] in API2.py.
StatColumn(impl) == IF impl = "API2" THEN "gyeongdo" ELSE "x"

\* The file <stem>_(<len(results)>_<total_count>)<tag><suffix> with the rows.
OutputFile(c, tag) ==
    [done |-> Len(c.results), total |-> c.total, tag |-> tag, rows |-> c.results]

\* An except clause: the rows so far are written and returned if there are
\* any; else an empty DataFrame is returned and nothing is written.
Handler(c, tag, path) ==
    IF Len(c.results) > 0
    THEN [c EXCEPT !.files = Append(@, OutputFile(c, tag)), !.returned = c.results,
                   !.pc = "returned", !.path = path]
    ELSE [c EXCEPT !.returned = <<>>, !.pc = "returned", !.path = path]

\* After the loop: the final file is written, then the statistics are taken
\* from the frame; a column that is not there raises KeyError, an Exception,
\* inside the try block.
Complete(c) ==
    LET saved == [c EXCEPT !.files = Append(@, OutputFile(c, ""))]
    IN  IF StatColumn(c.impl) \in Columns(c.results)
        THEN [saved EXCEPT !.returned = c.results, !.pc = "returned", !.path = "normal"]
        ELSE Handler(saved, "_error", "error")

\* The function is called for a file of `total` rows.
CsvStart ==
    /\ csv.pc = "idle"
    /\ \E impl \in Impls, total \in 0..MaxRows :
           LET c == [CsvIdle EXCEPT !.impl = impl, !.total = total, !.pc = "loop"]
           IN  csv' = IF total = 0 THEN Complete(c) ELSE c
    /\ UNCHANGED <<geo, apt, pool, wfsVars>>

\* One row is geocoded and its result appended; after the last row the
\* function goes on to its end.
CsvRow ==
    /\ csv.pc = "loop"
    /\ \E lon \in Longitudes :
           LET c == [csv EXCEPT !.results = Append(@, lon)]
           IN  csv' = IF Len(c.results) = c.total THEN Complete(c) ELSE c
    /\ UNCHANGED <<geo, apt, pool, wfsVars>>

\* KeyboardInterrupt while a row is geocoded.
CsvInterrupt ==
    /\ csv.pc = "loop"
    /\ csv' = Handler([csv EXCEPT !.cause = "interrupt"], "_interrupted", "interrupt")
    /\ UNCHANGED <<geo, apt, pool, wfsVars>>

\* Another exception while a row is geocoded.
CsvError ==
    /\ csv.pc = "loop"
    /\ csv' = Handler([csv EXCEPT !.cause = "exception"], "_error", "error")
    /\ UNCHANGED <<geo, apt, pool, wfsVars>>

----------------------------------------------------------------------------
\* process_csv (geocoder.py)

PoolIdle ==
    [pc |-> "idle", total |-> 0, workers |-> 0, submitted |-> 0, rows |-> <<>>,
     out |-> <<>>, results |-> <<>>, fail_count |-> 0, files |-> <<>>,
     returned |-> <<>>]

\* Rows whose future is in the executor's queue, and rows a worker thread
\* is processing.
Queued(p) == {i \in 1..p.submitted : p.rows[i] = "pending"}
Running(p) == {i \in 1..p.total : p.rows[i] = "running"}

\* The main thread takes one result: results.append(result), and fail_count
\* goes up if result.get("경도") is None.
Collected_CountsAll(p, i) ==
    [p EXCEPT !.results = Append(@, [idx |-> i, lon |-> p.out[i]]),
              !.fail_count = @ + 1,
              !.rows[i] = "collected"]

Collected(p, i) ==
    [p EXCEPT !.results = Append(@, [idx |-> i, lon |-> p.out[i]]),
              !.fail_count = IF p.out[i] = None THEN @ + 1 ELSE @,
              !.rows[i] = "collected"]

\* After the rows: the output file is written, then the statistics read
\* result_df["경도"]; for an empty frame that raises KeyError, which no except
\* clause of process_csv catches.
SaveAndReturn(p) ==
    LET saved == [p EXCEPT !.files = Append(@, [tag |-> "", rows |-> p.results])]
    IN  IF p.results = <<>>
        THEN [saved EXCEPT !.pc = "raised"]
        ELSE [saved EXCEPT !.pc = "returned", !.returned = p.results]

AfterRow(p) ==
    IF Len(p.results) = p.total THEN SaveAndReturn(p) ELSE p

\* process_csv is called for a file of `total` rows.
PoolStart ==
    /\ pool.pc = "idle"
    /\ \E total \in 0..MaxRows, workers \in 1..MaxWorkers :
           LET p == [PoolIdle EXCEPT !.total = total, !.workers = workers,
                                     !.rows = [i \in 1..total |-> "pending"],
                                     !.out = [i \in 1..total |-> None]]
           IN  pool' = IF workers <= 1
                       THEN AfterRow([p EXCEPT !.pc = "sequential"])
                       ELSE [p EXCEPT !.pc = IF total = 0 THEN "collect" ELSE "submit"]
    /\ UNCHANGED <<geo, apt, csv, wfsVars>>

\* workers <= 1: the main thread processes the next row itself.
SeqRow ==
    /\ pool.pc = "sequential"
    /\ \E lon \in Longitudes :
           LET i == Len(pool.results) + 1
           IN  pool' = AfterRow(Collected([pool EXCEPT !.out[i] = lon], i))
    /\ UNCHANGED <<geo, apt, csv, wfsVars>>

\* executor.submit(row_processor, row, idx, total) for the next row.
PoolSubmit ==
    /\ pool.pc = "submit"
    /\ pool' = [pool EXCEPT !.submitted = @ + 1,
                            !.pc = IF pool.submitted + 1 = pool.total
                                   THEN "collect" ELSE "submit"]
    /\ UNCHANGED <<geo, apt, csv, wfsVars>>

\* A free worker thread takes the oldest queued row.
WorkerTake ==
    /\ pool.pc \in {"submit", "collect"}
    /\ Queued(pool) # {}
    /\ Cardinality(Running(pool)) < pool.workers
    /\ LET i == CHOOSE j \in Queued(pool) : \A k \in Queued(pool) : j <= k
       IN  pool' = [pool EXCEPT !.rows[i] = "running"]
    /\ UNCHANGED <<geo, apt, csv, wfsVars>>

\* row_processor returns in a worker thread: the future holds the result.
WorkerFinish ==
    /\ pool.pc \in {"submit", "collect"}
    /\ \E i \in Running(pool), lon \in Longitudes :
           pool' = [pool EXCEPT !.rows[i] = "done", !.out[i] = lon]
    /\ UNCHANGED <<geo, apt, csv, wfsVars>>

\* as_completed yields a finished future; with none left the with block and
\* the function come to their end.
Collect ==
    /\ pool.pc = "collect"
    /\ IF pool.total = 0
       THEN pool' = SaveAndReturn(pool)
       ELSE \E i \in 1..pool.total :
                /\ pool.rows[i] = "done"
                /\ pool' = AfterRow(Collected(pool, i))
    /\ UNCHANGED <<geo, apt, csv, wfsVars>>

\* KeyboardInterrupt in the main thread: the rows collected so far are
\* written to the "_중단" file and returned, if there are any.
PoolInterrupt ==
    /\ pool.pc \in {"sequential", "submit", "collect"}
    /\ pool' = IF pool.results # <<>>
               THEN [pool EXCEPT !.pc = "interrupted", !.returned = pool.results,
                                 !.files = Append(@, [tag |-> "_jungdan",
                                                      rows |-> pool.results])]
               ELSE [pool EXCEPT !.pc = "interrupted"]
    /\ UNCHANGED <<geo, apt, csv, wfsVars>>

Locals ==
    /\ geo = GeoIdle
    /\ apt = AptIdle
    /\ csv = CsvIdle
    /\ pool = PoolIdle
    /\ pc = "idle"
    /\ split_boxes = <<>>
    /\ cur = 0
    /\ h_all = <<>>
    /\ h_seen = {}
    /\ w_all = <<>>
    /\ w_seen = {}
    /\ start_index = 0
    /\ page = 1
    /\ ret = "pending"
    /\ lastReq = NoRequest
    /\ queried = {}
    /\ anyFail = FALSE
    /\ run = 1
    /\ firstResult = <<>>

Init ==
    /\ store \in Stores
    /\ ceiling \in {PAGE_SIZE, PAGE_SIZE * (MaxFeatures + 1)}
    /\ bbox_filter \in {None, BBOX_GYEONGGI}
    /\ bbox_split \in {1, 4, 9}
    /\ Locals

Next == Begin \/ FetchPage \/ FetchFails

Spec == Init /\ [][Next]_vars

\* Two calls in a row against a feed that answers every request.
RerunNext == Begin \/ FetchPage \/ Rerun

RerunSpec == Init /\ [][RerunNext]_vars

\* split_bbox on boxes with min < max on both axes.
Coords == {6 * k : k \in (0 - MaxCoord)..MaxCoord}

Boxes == {<<x1, y1, x2, y2>> : x1 \in Coords, y1 \in Coords, x2 \in Coords, y2 \in Coords}

SplitInit ==
    /\ store = <<>>
    /\ ceiling = PAGE_SIZE
    /\ bbox_filter \in {b \in Boxes : b[1] < b[3] /\ b[2] < b[4]}
    /\ bbox_split \in (0 - 1)..MaxSplits
    /\ Locals

SplitNext == ApplySplit

SplitSpec == SplitInit /\ [][SplitNext]_vars

\* One walk without split over a feed long enough for several full pages; its
\* features lie at one point and have no id or the id "a".
WalkFeatures == [id : {None, <<"a">>}, pos : {<<3, 3>>}]

WalkInit ==
    /\ store \in UNION {[1..n -> WalkFeatures] : n \in 0..MaxWalkFeatures}
    /\ ceiling \in {2 * PAGE_SIZE, PAGE_SIZE * (MaxWalkFeatures + 1)}
    /\ bbox_filter = None
    /\ bbox_split = 1
    /\ Locals

WalkSpec == WalkInit /\ [][Next]_vars

\* No harvest: the WFS side stays as it is constructed.
GeoInit ==
    /\ store = <<>>
    /\ ceiling = PAGE_SIZE
    /\ bbox_filter = None
    /\ bbox_split = 1
    /\ Locals

\* Calls of address_to_coordinate on its own.
GeoNext == GeoCall \/ GeoRequest

GeoSpec == GeoInit /\ [][GeoNext]_vars

\* Calls of geocode_apt.
AptNext == AptBegin \/ GeoRequest \/ AptStep

AptSpec == GeoInit /\ [][AptNext]_vars

\* One walk without split against a feed that has a full page at every
\* offset and rejects none; `ceiling` is the offset at which the real feed stops.
EndlessInit ==
    /\ store = <<>>
    /\ ceiling \in {PAGE_SIZE, 2 * PAGE_SIZE}
    /\ bbox_filter = None
    /\ bbox_split = 1
    /\ Locals

EndlessNext == Begin \/ FetchEndless

EndlessSpec == EndlessInit /\ [][EndlessNext]_vars

\* Runs of the two CSV functions, stopped at any row or not at all.
CsvNext == CsvStart \/ CsvRow \/ CsvInterrupt \/ CsvError

CsvSpec == GeoInit /\ [][CsvNext]_vars

PoolNext ==
    \/ PoolStart
    \/ SeqRow
    \/ PoolSubmit
    \/ WorkerTake
    \/ WorkerFinish
    \/ Collect
    \/ PoolInterrupt

PoolSpec == GeoInit /\ [][PoolNext]_vars

\* A harvest against a feed that answers every request, interrupted at any
\* request or not at all.
CancelNext == Begin \/ FetchPage \/ Cancel

CancelSpec == Init /\ [][CancelNext]_vars

----------------------------------------------------------------------------
\* Helpers of the properties

Range(s) == {s[k] : k \in 1..Len(s)}

IsPrefix(s, t) == Len(s) <= Len(t) /\ SubSeq(t, 1, Len(s)) = s

NoDupIds(s) ==
    \A i, j \in 1..Len(s) :
        (i < j /\ s[i].id # None /\ s[j].id # None) => s[i].id # s[j].id

\* The features of the feed are pairwise different and share no identifier.
DistinctStore ==
    \A i, j \in 1..Len(store) :
        i < j => /\ store[i] # store[j]
                 /\ (store[i].id = None \/ store[i].id # store[j].id)

\* The features of the feed inside the layer's target region.
InRegion == Matching(bbox_filter)

----------------------------------------------------------------------------
\* C1: neither the list a walk collects nor the list download_layer returns
\* ever holds two features whose ids are both present and equal.
C1_DedupInvariant == NoDupIds(h_all) /\ NoDupIds(w_all)

\* A 2x2 harvest is over, every request was answered, and a feature with an id
\* that lies on the corner shared by the four cells is in the result.
C1_Witness ==
    /\ pc = "done"
    /\ ~anyFail
    /\ bbox_filter # None /\ bbox_split = 4
    /\ \E f \in Range(h_all) : f.id # None /\ f.pos = <<3, 3>>
    /\ \E i, j \in 1..Len(store) : i < j /\ store[i].id = store[j].id /\ store[i].id # None

\* C2 (the claim as stated): a feature without id that the last page of the
\* harvest delivered is in the list download_layer ends with.
C2_AbsentIdAccepted ==
    (pc = "done" /\ lastReq.kind = "ok") =>
        \A f \in Range(lastReq.features) : f.id = None => f \in Range(h_all)

\* C3 (the claim as stated): a feed that answers every request and holds K
\* distinct features in the target region, K below the ceiling, makes the
\* harvest end with exactly those K features.
C3_CoverageComplete ==
    (pc = "done" /\ ~anyFail /\ DistinctStore /\ Len(InRegion) < ceiling) =>
        /\ Len(h_all) = Len(InRegion)
        /\ Range(h_all) = Range(InRegion)

\* The walk over the whole region got a full page at every offset below the
\* feed's ceiling and was stopped by the ceiling.
FilledToCeiling ==
    /\ cur = 0
    /\ ~anyFail
    /\ lastReq.kind = "http"
    /\ lastReq.offset = ceiling

CellsBelowCeiling ==
    \A k \in 1..Len(split_bbox(bbox_filter, bbox_split)) :
        Len(Matching(split_bbox(bbox_filter, bbox_split)[k])) < ceiling

\* C5 (the claim as stated): a region with more distinct features than the
\* ceiling lets one query reach, every cell of the 9-way split below the
\* ceiling, is harvested completely: as many records as distinct features.
C5_CompleteBeyondCeiling ==
    ( /\ pc = "done"
      /\ ~anyFail
      /\ bbox_filter # None
      /\ bbox_split = 9
      /\ DistinctStore
      /\ Len(InRegion) > ceiling
      /\ CellsBelowCeiling ) =>
        /\ Len(h_all) = Len(InRegion)
        /\ Range(h_all) = Range(InRegion)

Area(b) == (b[3] - b[1]) * (b[4] - b[2])

RECURSIVE SumArea(_)
SumArea(cells) == IF cells = <<>> THEN 0 ELSE Area(Head(cells)) + SumArea(Tail(cells))

Inside(c, b) ==
    /\ b[1] <= c[1] /\ c[1] <= c[3] /\ c[3] <= b[3]
    /\ b[2] <= c[2] /\ c[2] <= c[4] /\ c[4] <= b[4]

InteriorsDisjoint(a, b) ==
    a[3] <= b[1] \/ b[3] <= a[1] \/ a[4] <= b[2] \/ b[4] <= a[2]

\* Two cells side by side, or one above the other, meet in one coordinate.
SharedBoundaries(cells, n) ==
    \A k \in 1..Len(cells) :
        /\ (k % n # 0) => cells[k][3] = cells[k + 1][1]
        /\ (k + n <= Len(cells)) => cells[k][4] = cells[k + n][2]

\* The cells lie in the box, reach its four bounds, have pairwise disjoint
\* interiors and together its area: their union is the box.
ExactCover(cells, bbox) ==
    /\ \A k \in 1..Len(cells) : Inside(cells[k], bbox)
    /\ \E k \in 1..Len(cells) : cells[k][1] = bbox[1]
    /\ \E k \in 1..Len(cells) : cells[k][2] = bbox[2]
    /\ \E k \in 1..Len(cells) : cells[k][3] = bbox[3]
    /\ \E k \in 1..Len(cells) : cells[k][4] = bbox[4]
    /\ \A i, j \in 1..Len(cells) : i < j => InteriorsDisjoint(cells[i], cells[j])
    /\ SumArea(cells) = Area(bbox)

\* C6: split_bbox(region, 9) gives 9 cells and split_bbox(region, 4) gives 4;
\* the cells cover the region exactly, neighbours share their boundary
\* coordinate, and no two interiors overlap.
C6_RegionCoverage ==
    (pc = "split" /\ bbox_split \in {4, 9}) =>
        /\ Len(split_boxes) = bbox_split
        /\ ExactCover(split_boxes, bbox_filter)
        /\ SharedBoundaries(split_boxes, IF bbox_split = 4 THEN 2 ELSE 3)

\* A box that is not a square was split nine ways.
C6_Witness ==
    /\ pc = "split"
    /\ bbox_split = 9
    /\ Len(split_boxes) = 9
    /\ bbox_filter[3] - bbox_filter[1] # bbox_filter[4] - bbox_filter[2]

\* The answer to the request was a page shorter than PAGE_SIZE.
ShortPage(req) == req.kind = "ok" /\ Len(req.features) < PAGE_SIZE

\* The walk of the current region is over after the step: download_layer
\* returned, or the next cell's walk is about to send its first request.
WalkOver ==
    /\ pc' = "done" \/ (pc' = "fetch" /\ cur' = cur + 1)
    /\ start_index' = 0

\* C7: a page shorter than PAGE_SIZE, an empty one too, ends the walk of its
\* region, and the request after it, if any, is for a later region.
C7_PartialPageEndsWalk ==
    [][ /\ (pc = "fetch" /\ ShortPage(lastReq')) => WalkOver
        /\ (pc = "fetch" /\ ShortPage(lastReq)) => lastReq'.cell > lastReq.cell ]_vars

\* A second page with fewer than PAGE_SIZE features, but some, was the last
\* request of its region.
C7_Witness ==
    /\ ShortPage(lastReq)
    /\ lastReq.features # <<>>
    /\ lastReq.offset > 0
    /\ pc = "done" \/ cur > lastReq.cell

\* C8: a second call of download_layer against the same feed, which answers
\* every request, ends with the same set of features as the first.
C8_IdempotentReharvest ==
    (run = 2 /\ pc = "done") => Range(h_all) = Range(firstResult)

\* The second call of a split harvest is over and its result is not empty.
C8_Witness ==
    /\ run = 2
    /\ pc = "done"
    /\ cur >= 1
    /\ h_all # <<>>

\* The request of this step failed by a timeout or a network error.
TransientFailure == pc = "fetch" /\ lastReq'.kind = "net"

C10_PartialFailureIsolation ==
    /\ [](pc = "done" /\ split_boxes # <<>> => queried = 1..Len(split_boxes))
    /\ [][IsPrefix(h_all, h_all')]_vars

\* A request failed in a cell before the last, and the harvest ended with
\* features of an earlier cell and of the last cell.
C10_Witness ==
    /\ pc = "done"
    /\ anyFail
    /\ Len(split_boxes) = 9
    /\ lastReq.cell = 9
    /\ lastReq.kind = "ok"
    /\ lastReq.features # <<>>
    /\ Len(h_all) >= 2

\* Some request of the harvest failed: the coverage is known to be incomplete.
SomeRegionFailed == anyFail

C13_NoSplitIdentity ==
    (pc = "split" /\ bbox_split = 1) => split_boxes = <<bbox_filter>>

\* split_bbox was applied with 1 to a box that is not a square.
C13_Witness ==
    /\ pc = "split"
    /\ bbox_split = 1
    /\ Len(split_boxes) = 1
    /\ bbox_filter[3] - bbox_filter[1] # bbox_filter[4] - bbox_filter[2]

\* The squares among the split counts, and their roots.
IsSquare(s) == \E n \in 2..s : n * n = s

Root(s) == CHOOSE n \in 2..s : n * n = s

\* Cell k, counted row by row from the lower left, of the box cut into n
\* equal intervals on both axes.
EqualCell(b, n, k) ==
    LET j == (k - 1) \div n
        i == (k - 1) % n
        w == b[3] - b[1]
        h == b[4] - b[2]
    IN  <<b[1] + (i * w) \div n, b[2] + (j * h) \div n,
          b[1] + ((i + 1) * w) \div n, b[2] + ((j + 1) * h) \div n>>

EqualGrid(cells, b, n) ==
    /\ Len(cells) = n * n
    /\ \A k \in 1..Len(cells) : cells[k] = EqualCell(b, n, k)

\* C14 (the claim as stated): for every square factor n*n, 4, 9 and larger
\* ones such as 16, split_bbox cuts both axes into n equal intervals and gives
\* the n*n cells row by row.
C14_AnySquareFactor ==
    (pc = "split" /\ IsSquare(bbox_split)) =>
        EqualGrid(split_boxes, bbox_filter, Root(bbox_split))

\* C14 (amended): for the factors 4 and 9 split_bbox cuts both axes into 2,
\* resp. 3, equal intervals and gives the 4, resp. 9, cells row by row; a larger
\* factor, 16 too, gives the same 3x3 grid as 9.
C14_SupportedFactors ==
    pc = "split" =>
        /\ bbox_split = 4 => EqualGrid(split_boxes, bbox_filter, 2)
        /\ bbox_split >= 9 => EqualGrid(split_boxes, bbox_filter, 3)

\* split_bbox was applied with 16 to a box that is not a square and gave
\* nine cells.
C14_Witness ==
    /\ pc = "split"
    /\ bbox_split = 16
    /\ Len(split_boxes) = 9
    /\ bbox_filter[3] - bbox_filter[1] # bbox_filter[4] - bbox_filter[2]

\* The regions download_layer walks, in the order in which it walks them.
Cells == IF bbox_filter # None /\ bbox_split > 1
         THEN split_bbox(bbox_filter, bbox_split)
         ELSE <<bbox_filter>>

\* What the feed delivers to a walk of the box when it answers every request:
\* the pages of the offsets below the ceiling, one after the other.
Delivered(box) == SubSeq(Matching(box), 1, Min(Len(Matching(box)), ceiling))

\* The features delivered for the first k regions, in the order of delivery.
RECURSIVE Stream(_)
Stream(k) == IF k = 0 THEN <<>> ELSE Stream(k - 1) \o Delivered(Cells[k])

\* s without the features whose id, a present one, an earlier feature of s has.
RECURSIVE KeepFirst(_)
KeepFirst(s) ==
    IF s = <<>> THEN <<>>
    ELSE LET n == Len(s)
             front == SubSeq(s, 1, n - 1)
         IN  IF s[n].id = None \/ \A k \in 1..(n - 1) : s[k].id # s[n].id
             THEN Append(KeepFirst(front), s[n])
             ELSE KeepFirst(front)

\* a is b with some of its elements left out.
RECURSIVE IsSubseq(_, _)
IsSubseq(a, b) ==
    IF a = <<>> THEN TRUE
    ELSE IF b = <<>> THEN FALSE
    ELSE IF Head(a) = Head(b) THEN IsSubseq(Tail(a), Tail(b))
    ELSE IsSubseq(a, Tail(b))

\* C15: the lists only grow at their end, so a feature stays where it was
\* put; and the list download_layer ends with has the features in the order
\* of their delivery (page after page, cell after cell), with the feature
\* delivered first for every id that was delivered more than once.
C15_InsertionOrder ==
    /\ [][ /\ IsPrefix(h_all, h_all')
           /\ IsPrefix(w_all, w_all') \/ w_all' = <<>> ]_vars
    /\ []((pc = "done" /\ ~anyFail) =>
              IsSubseq(h_all, KeepFirst(Stream(Len(Cells)))))

\* A harvest ended with two features or more after the id "a" had been
\* delivered twice with different geometries: the feature delivered first is in
\* the list, at its head, and the one delivered later is not.
C15_Witness ==
    /\ pc = "done"
    /\ ~anyFail
    /\ Len(h_all) >= 2
    /\ \E i, j \in 1..Len(Stream(Len(Cells))) :
           /\ i < j
           /\ Stream(Len(Cells))[i].id = <<"a">>
           /\ Stream(Len(Cells))[j].id = <<"a">>
           /\ Stream(Len(Cells))[i].pos # Stream(Len(Cells))[j].pos
           /\ Stream(Len(Cells))[i] = h_all[1]
           /\ Stream(Len(Cells))[j] \notin Range(h_all)

\* The answer to the request was a page of PAGE_SIZE features.
FullPage(req) == req.kind = "ok" /\ Len(req.features) = PAGE_SIZE

\* Every feature of the page answered in this step is in the walk's list
\* after the step, or an earlier feature with its id is.
PageAccepted ==
    \A f \in Range(lastReq'.features) :
        \E g \in Range(w_all') : g.id = f.id /\ (f.id = None => g = f)

\* The walk of the current region goes on with a request at the given offset.
WalkGoesOn(offset) == pc' = "fetch" /\ cur' = cur /\ start_index' = offset

C19_OffsetProgression ==
    /\ [][ /\ (pc = "fetch" /\ FullPage(lastReq') /\ lastReq'.offset + PAGE_SIZE < ceiling)
               => (PageAccepted /\ WalkGoesOn(lastReq'.offset + PAGE_SIZE))
           /\ (pc = "fetch" /\ (lastReq.kind = "none" \/ lastReq'.cell # lastReq.cell))
               => lastReq'.offset = 0
           /\ (pc = "fetch" /\ lastReq.kind # "none" /\ lastReq'.cell = lastReq.cell)
               => lastReq'.offset = lastReq.offset + PAGE_SIZE ]_vars
    /\ [](start_index = (page - 1) * PAGE_SIZE)

\* The third request of a walk, at offset 2 * PAGE_SIZE, was sent after two
\* full pages whose features are in the list.
C19_Witness ==
    /\ lastReq.kind = "ok"
    /\ lastReq.offset = 2 * PAGE_SIZE
    /\ ~anyFail
    /\ Len(h_all) > 2 * PAGE_SIZE

\* The request of this step was rejected with an HTTP error status, or its
\* body was not JSON.
RejectedOrMalformed == pc = "fetch" /\ lastReq'.kind \in {"http", "json"}

\* The request of this step was answered with a page of no feature.
EmptyPage == pc = "fetch" /\ lastReq'.kind = "ok" /\ lastReq'.features = <<>>

\* The step ends the walk of the region with what the walk had accepted, as
\* the end of the data does: no request for the same region follows, the
\* walk's list goes to download_layer unchanged, and nothing but the boolean
\* of the whole harvest is returned.
EndsAsEndOfData ==
    /\ WalkOver
    /\ h_all' = IF cur = 0 THEN w_all
                ELSE h_all \o SelectSeq(w_all, LAMBDA f : Truthy(f.id) /\ f.id \notin h_seen)
    /\ ret' = IF pc' = "done" THEN Result(h_all') ELSE "pending"

AllAttemptsFailed ==
    /\ geo.outcomes # <<>>
    /\ \A k \in 1..Len(geo.outcomes) : geo.outcomes[k] \in {"timeout", "network"}

\* C16: address_to_coordinate with max_retries = n sends at most n requests;
\* when all of them fail by timeout or network error it has sent n and returns
\* None, and it returns nothing but None or a point; a request answered with a
\* point is the last one, and the point, as numbers, is returned.
C16_BoundedAttempts ==
    /\ Len(geo.outcomes) <= geo.max_retries
    /\ geo.pc = "returned" => geo.result \in {None, <<127, 37>>}
    /\ (geo.pc = "returned" /\ AllAttemptsFailed) =>
           (geo.result = None /\ Len(geo.outcomes) = geo.max_retries)
    /\ \A k \in 1..Len(geo.outcomes) :
           geo.outcomes[k] = "found" =>
               /\ k = Len(geo.outcomes)
               /\ geo.pc = "returned"
               /\ geo.result = <<127, 37>>

\* A call with max_retries = 3 got its point at the third request, after a
\* timeout and a network error.
C16_Witness ==
    /\ geo.pc = "returned"
    /\ geo.max_retries = 3
    /\ geo.outcomes = <<"timeout", "network", "found">>
    /\ geo.result # None

RuleIndex(rule) == CHOOSE k \in 1..Len(Rules) : Rules[k] = rule

\* The rules of the attempts geocode_apt has made and got an answer for.
RulesTried == {apt.calls[i].rule : i \in 1..Len(apt.calls)}

\* C17: geocode_apt makes its attempts in the order road address, parcel
\* address, parcel address with city and district separated, each with the
\* address and type of its rule and none after one that succeeded; an empty
\* road address, an empty parcel address and a parcel address that parsing
\* leaves as it is get no attempt and no request; the rule returned is that of
\* the attempt that succeeded, with its point; and the failure triple is
\* returned exactly when every attempt that was due has failed.
C17_FallbackOrder ==
    /\ \A i, j \in 1..Len(apt.calls) :
           i < j => /\ RuleIndex(apt.calls[i].rule) < RuleIndex(apt.calls[j].rule)
                    /\ apt.calls[i].result = None
    /\ \A i \in 1..Len(apt.calls) :
           LET c == apt.calls[i]
           IN  /\ c.rule = "road" =>
                     (apt.road # <<>> /\ c.address = apt.road /\ c.addr_type = "ROAD")
               /\ c.rule = "parcel" =>
                     (apt.parcel # <<>> /\ c.address = apt.parcel /\ c.addr_type = "PARCEL")
               /\ c.rule = "parcel_sigungu" =>
                     /\ c.address # apt.parcel
                     /\ c.address = parse_sigungu_address(apt.parcel)
                     /\ c.addr_type = "PARCEL"
    /\ geo.pc = "request" =>
           (apt.pc = "calling" /\ Rules[apt.stage] \notin RulesTried)
    /\ apt.pc = "returned" =>
           IF \E i \in 1..Len(apt.calls) : apt.calls[i].result # None
           THEN LET c == apt.calls[Len(apt.calls)]
                IN  apt.result = <<c.result[1], c.result[2], c.rule>>
           ELSE /\ apt.result = <<None, None, FAILED>>
                /\ apt.road # <<>> => "road" \in RulesTried
                /\ apt.parcel # <<>> => "parcel" \in RulesTried
                /\ (apt.parcel # <<>> /\ parse_sigungu_address(apt.parcel) # apt.parcel)
                       => "parcel_sigungu" \in RulesTried

\* The road address failed after a retry, the parcel address failed, and the
\* parcel address with city and district separated gave the point.
C17_Witness ==
    /\ apt.pc = "returned"
    /\ Len(apt.calls) = 3
    /\ apt.calls[1].requests = 2
    /\ apt.calls[2].requests >= 1
    /\ apt.result = <<127, 37, "parcel_sigungu">>

\* The request of this step, not the first of its walk, got no page: it
\* failed, or its answer had no "features".
FailsMidWalk == pc = "fetch" /\ lastReq'.offset > 0 /\ lastReq'.kind # "ok"

\* C21 (the claim as stated): when a walk fails at a later page, every feature
\* it had accepted from the pages before is in the list of download_layer: the
\* feature itself if it has no id, it or an earlier feature with its id if it
\* has one.
C21_StreamingAccumulation ==
    [][ FailsMidWalk =>
            \A f \in Range(w_all) :
                IF f.id = None THEN f \in Range(h_all')
                ELSE \E g \in Range(h_all') : g.id = f.id ]_vars

\* C22: the cells of the split are fixed before the first request and walked
\* one after the other: the first request of a cell goes to a cell never
\* queried before, no step goes back to an earlier cell, and a cell's walk
\* that fills its pages up to the ceiling ends with the split unchanged.
C22_OneLevelOnly ==
    /\ []((pc = "fetch" /\ start_index = 0) => cur \notin queried)
    /\ [][ pc = "fetch" =>
               /\ split_boxes' = split_boxes
               /\ cur' \in {cur, cur + 1}
               /\ (lastReq.kind # "none" => lastReq'.cell >= lastReq.cell) ]_vars
    /\ []((pc = "done" /\ cur >= 1) =>
              (Len(split_boxes) = bbox_split /\ queried = 1..bbox_split))

\* The walk of a cell before the last was stopped by the ceiling after full
\* pages, and the harvest ended with the nine cells it began with.
C22_Witness ==
    /\ pc = "done"
    /\ Len(split_boxes) = 9
    /\ ~anyFail
    /\ Len(h_all) >= ceiling
    /\ \E f \in Range(h_all) : f.pos = <<1, 1>>
    /\ Len(Matching(split_boxes[1])) > ceiling

C27_BoundedWalk ==
    pc = "fetch" => page - 1 <= ceiling \div PAGE_SIZE + 1

\* C30: split_bbox gives 1, 4 or 9 cells whatever the factor: the box itself
\* for a factor up to 1 and for 2, 3, 5, 6, 7, 8, the 2x2 grid for 4, and the
\* 3x3 grid for every factor from 9 on; the number of cells is the factor for
\* 1, 4 and 9 only.
C30_CellCounts ==
    pc = "split" =>
        /\ Len(split_boxes) \in {1, 4, 9}
        /\ (bbox_split <= 1 \/ bbox_split \in {2, 3, 5, 6, 7, 8}) =>
               split_boxes = <<bbox_filter>>
        /\ bbox_split = 4 =>
               (Len(split_boxes) = 4 /\ EqualGrid(split_boxes, bbox_filter, 2))
        /\ bbox_split >= 9 =>
               (Len(split_boxes) = 9 /\ EqualGrid(split_boxes, bbox_filter, 3))
        /\ Len(split_boxes) = bbox_split <=> bbox_split \in {1, 4, 9}

\* split_bbox was applied with 25 and gave nine cells.
C30_Witness ==
    /\ pc = "split"
    /\ bbox_split = 25
    /\ Len(split_boxes) = 9

\* The waits due after the first k requests of a call with max_retries = n:
\* 2 * a seconds after request a if it ended in a timeout or a network error
\* and was not the last one allowed.
RECURSIVE BackoffWaits(_, _, _)
BackoffWaits(outcomes, k, n) ==
    IF k = 0 THEN <<>>
    ELSE IF outcomes[k] \in {"timeout", "network"} /\ k < n
         THEN Append(BackoffWaits(outcomes, k - 1, n), 2 * k)
         ELSE BackoffWaits(outcomes, k - 1, n)

\* C25: address_to_coordinate of API1.py (and API2.py) sleeps 2 * a seconds
\* after its request number a failed by timeout or network error, if another
\* attempt is left, and sleeps at no other time: not after the last attempt.
C25_LinearBackoff ==
    geo.impl = "API1" =>
        geo.slept = BackoffWaits(geo.outcomes, Len(geo.outcomes), geo.max_retries)

\* Three attempts failed, and the function slept 2 and 4 seconds and returned.
C25_Witness ==
    /\ geo.impl = "API1"
    /\ geo.pc = "returned"
    /\ geo.max_retries = 3
    /\ geo.outcomes = <<"timeout", "network", "timeout">>
    /\ geo.slept = <<2, 4>>

\* C28 (the claim as stated): in API1.py's address_to_coordinate every request
\* that is followed by another one ended in a timeout or a network error.
C28_RequestOnlyAfterError ==
    geo.impl = "API1" =>
        \A k \in 1..(Len(geo.outcomes) - 1) : geo.outcomes[k] \in {"timeout", "network"}

\* C24 (the claim as stated): when the function returns from its handler of
\* KeyboardInterrupt or of another exception with k >= 1 result rows, those k
\* rows are in the _interrupted, resp. _error, file and are returned; with
\* k = 0 nothing is returned and no file has been written.
C24_PartialSavedOnAbort ==
    (csv.pc = "returned" /\ csv.path \in {"interrupt", "error"}) =>
        IF Len(csv.results) >= 1
        THEN /\ csv.returned = csv.results
             /\ \E k \in 1..Len(csv.files) :
                    /\ csv.files[k].tag = "_" \o csv.path \o
                           (IF csv.path = "interrupt" THEN "ed" ELSE "")
                    /\ csv.files[k].rows = csv.results
                    /\ csv.files[k].done = Len(csv.results)
        ELSE /\ csv.returned = <<>>
             /\ csv.files = <<>>

\* C29 (the claim as stated): a run of API1.py's function that no interrupt
\* and no exception of a row stopped writes the one file <stem>_(n_n) and
\* returns from the end of its try block.
C29_NormalCompletion ==
    (csv.pc = "returned" /\ csv.impl = "API1" /\ csv.cause = "none") =>
        /\ csv.files = <<[done |-> csv.total, total |-> csv.total, tag |-> "",
                          rows |-> csv.results]>>
        /\ csv.path = "normal"

\* C26: a run of process_csv that returns normally has exactly one result
\* entry per input row, each the result its row's processing gave, and
\* fail_count is the number of entries whose longitude is None; with
\* workers <= 1 the entries are in input order.
C26_OneResultPerRow ==
    pool.pc = "returned" =>
        /\ Len(pool.results) = pool.total
        /\ \A i \in 1..pool.total :
               Cardinality({k \in 1..Len(pool.results) : pool.results[k].idx = i}) = 1
        /\ \A k \in 1..Len(pool.results) :
               pool.results[k].lon = pool.out[pool.results[k].idx]
        /\ pool.fail_count =
               Cardinality({k \in 1..Len(pool.results) : pool.results[k].lon = None})
        /\ pool.workers <= 1 => \A k \in 1..Len(pool.results) : pool.results[k].idx = k
        /\ pool.returned = pool.results
        /\ pool.files = <<[tag |-> "", rows |-> pool.results]>>

\* Two workers, three rows, the results collected out of input order, one of
\* them a failure.
C26_Witness ==
    /\ pool.pc = "returned"
    /\ pool.workers = 2
    /\ pool.total = 3
    /\ pool.results[1].idx = 2
    /\ pool.results[3].idx = 1
    /\ pool.fail_count = 1

====
